------------------------------ MODULE Spec2Model ------------------------------
(***************************************************************************)
(* Poseidon2 over the Mersenne prime field p = 2^31 - 1                    *)
(* (mersenne-31/src/poseidon2.rs): the delayed-reduction diffusion         *)
(* transform permute_mut, the generic ring formulation of the same map,    *)
(* the layer bindings and the two default permutation instances.           *)
(*                                                                         *)
(* TLC integers are 32-bit, so the u64 accumulators of permute_mut are     *)
(* kept as four 16-bit limbs (least significant first) and every field     *)
(* operation is written so that no intermediate value leaves [0, 2^31).    *)
(*                                                                         *)
(* Two specifications:                                                     *)
(*   Spec      the diffusion transforms applied as functions to sampled    *)
(*             canonical states and scalars, for width 16 and width 24;    *)
(*   SpecPerm  permute calls on a default instance, several calls          *)
(*             interleaved on one shared instance.                         *)
(***************************************************************************)
EXTENDS Integers, Sequences, FiniteSets

VARIABLES
    N,          \* Spec: width of the states handed to the transforms
    ca, cb,     \* Spec: the two field scalars of the linear combination
    st,         \* Spec: slot -> current state array
    prev,       \* Spec: slot -> the state array before the last call on it
    applied,    \* Spec: slot -> number of completed calls on it
    handed,     \* Spec: the accumulators the last permute_mut call handed to from_u62
    panicked,   \* a debug assertion or an overflow check of the build failed
    perm,       \* SpecPerm: the permutation instance (constant tables owned by value)
    calls       \* SpecPerm: call id -> the record of one permute call

varsFn == << N, ca, cb, st, prev, applied, handed >>
vars == << N, ca, cb, st, prev, applied, handed, panicked, perm, calls >>

-----------------------------------------------------------------------------
(* The field: canonical representatives modulo p = 2^31 - 1.               *)

P == 2147483647

IsCanonical(v) == v \in Int /\ 0 <= v /\ v < P

\* Field addition of canonical a, b; a + b is never formed when it would pass 2^31.
AddP(a, b) == IF a >= P - b THEN a - (P - b) ELSE a + b

\* Negation: 0 stays 0, every other value maps to p - value.
NegP(a) == IF a = 0 THEN 0 ELSE P - a

SubP(a, b) == AddP(a, NegP(b))

DoubleP(a) == AddP(a, a)

Canon31(v) == IF v = P THEN 0 ELSE v

\* Multiplication by 2^k: as 2^31 = 1 (mod p), a rotation of the 31 bits by k mod 31.
Mul2ExpP(a, k) ==
    LET s == k % 31
        m == 2 ^ (31 - s)
    IN  IF s = 0 THEN a ELSE Canon31((a % m) * (2 ^ s) + (a \div m))

\* Field multiplication, schoolbook on 11-bit limbs: every partial product is
\* below 2^22, every column sum below 3 * 2^22, and column k weighs 2^(11k).
MulP(a, b) ==
    LET a0 == a % 2048
        a1 == (a \div 2048) % 2048
        a2 == a \div 4194304
        b0 == b % 2048
        b1 == (b \div 2048) % 2048
        b2 == b \div 4194304
        c0 == a0 * b0
        c1 == a0 * b1 + a1 * b0
        c2 == a0 * b2 + a1 * b1 + a2 * b0
        c3 == a1 * b2 + a2 * b1
        c4 == a2 * b2
    IN  AddP(AddP(AddP(c0, Mul2ExpP(c1, 11)), AddP(Mul2ExpP(c2, 22), Mul2ExpP(c3, 33))),
             Mul2ExpP(c4, 44))

\* x^d, square-and-multiply.
RECURSIVE PowP(_, _)
PowP(x, d) ==
    IF d = 0 THEN 1
    ELSE LET h  == PowP(x, d \div 2)
             hh == MulP(h, h)
         IN  IF d % 2 = 1 THEN MulP(hh, x) ELSE hh

\* Sum of the elements s[lo..hi] in the field (0 for an empty range), taken by
\* halves: field addition is associative, and the halving keeps the evaluation
\* shallow.
RECURSIVE SumP(_, _, _)
SumP(s, lo, hi) ==
    IF lo > hi THEN 0
    ELSE IF lo = hi THEN s[lo]
    ELSE LET mid == (lo + hi) \div 2
         IN  AddP(SumP(s, lo, mid), SumP(s, mid + 1, hi))

\* A function on 1..n as a sequence value: its elements are computed once.
AsSeq(f) == f \o << >>

-----------------------------------------------------------------------------
(* u64 arithmetic on four 16-bit limbs, least significant first.           *)

Limb == 256 * 256

U64Zero == << 0, 0, 0, 0 >>

\* `x as u64` for a u32 below 2^31.
U64FromU32(x) == << x % Limb, x \div Limb, 0, 0 >>

\* a + b modulo 2^64, with the carry out of bit 63.
U64Add(x, y) ==
    LET s1 == x[1] + y[1]
        s2 == x[2] + y[2] + (s1 \div Limb)
        s3 == x[3] + y[3] + (s2 \div Limb)
        s4 == x[4] + y[4] + (s3 \div Limb)
    IN  [ v |-> << s1 % Limb, s2 % Limb, s3 % Limb, s4 % Limb >>,
          carry |-> s4 >= Limb ]

\* x << s modulo 2^64 for s in 0..63: bits shifted past bit 63 are dropped
\* (Rust's << checks the shift amount only, never the bits that fall out).
U64Shl(x, s) ==
    LET q == s \div 16
        m == 2 ^ (s % 16)
        t == [ i \in 1..4 |-> x[i] * m ]
        n == [ i \in 1..4 |->
                 (t[i] % Limb) + (IF i > 1 THEN t[i - 1] \div Limb ELSE 0) ]
    IN  [ i \in 1..4 |-> IF i - q >= 1 THEN n[i - q] ELSE 0 ]

\* The value is below 2^62.
U64Below2_62(x) == x[4] < 16384

-----------------------------------------------------------------------------
(* from_u62: the reduction primitive of the crate.  It takes a u64 below   *)
(* 2^62 (a debug assertion) and returns its canonical representative:      *)
(* with x = hi * 2^31 + lo and 2^31 = 1 (mod p), x = hi + lo (mod p).      *)
(* Bits 62 and 63 (outside the contract) weigh 2^62 = 1 (mod p).           *)

from_u62(x) ==
    LET lo  == x[1] + (x[2] % 32768) * Limb
        hi  == (x[2] \div 32768) + 2 * x[3] + (x[4] % 16384) * 131072
        top == x[4] \div 16384
    IN  AddP(AddP(Canon31(lo), Canon31(hi)), top)

-----------------------------------------------------------------------------
(* The diagonal specifications.                                            *)

POSEIDON2_INTERNAL_MATRIX_DIAG_16_SHIFTS ==
    << 0, 1, 2, 3, 4, 5, 6, 7, 8, 10, 12, 13, 14, 15, 16 >>

\* Mutant: the last exponent mistyped, 32 for 22.
DIAG_24_SHIFTS_LAST_MISTYPED ==
    << 0, 1, 2, 3, 4, 5, 6, 7, 8, 9, 10, 11, 12, 13, 14, 15, 16, 17, 18, 19, 20,
       21, 32 >>

POSEIDON2_INTERNAL_MATRIX_DIAG_24_SHIFTS ==
    << 0, 1, 2, 3, 4, 5, 6, 7, 8, 9, 10, 11, 12, 13, 14, 15, 16, 17, 18, 19, 20,
       21, 22 >>

\* The diagonals V as the module documentation lists them, -2 as p - 2.
OPTIMIZED_DIAGONAL_16 ==
    << P - 2, 2 ^ 0, 2, 4, 8, 16, 32, 64, 2 ^ 7, 2 ^ 8, 2 ^ 10, 2 ^ 12, 2 ^ 13,
       2 ^ 14, 2 ^ 15, 2 ^ 16 >>

OPTIMIZED_DIAGONAL_24 ==
    << P - 2, 2 ^ 0, 2, 4, 8, 16, 32, 64, 2 ^ 7, 2 ^ 8, 2 ^ 9, 2 ^ 10, 2 ^ 11,
       2 ^ 12, 2 ^ 13, 2 ^ 14, 2 ^ 15, 2 ^ 16, 2 ^ 17, 2 ^ 18, 2 ^ 19, 2 ^ 20,
       2 ^ 21, 2 ^ 22 >>

-----------------------------------------------------------------------------
(* permute_mut: multiply the state by 1 + Diag(V), V = [-2] + 1 << shifts, *)
(* with delayed reduction.  Sequences are 1-based: state[1] is the code's  *)
(* state[0], and the code's shifts[i - 1] for state[i] is sh[j - 1] for    *)
(* state[j].                                                               *)
(*                                                                         *)
(* The result records, beside the new state, what the checks of the build  *)
(* saw: lenOk (the debug_assert_eq), idxOk (the bounds check of            *)
(* shifts[i - 1]), noWrap (no u64 addition carried out of bit 63), fits62  *)
(* (from_u62's debug assertion) and the accumulators handed to from_u62.   *)

\* state[lo..=hi].iter().map(|x| x.value as u64).sum(), taken by halves.  The
\* terms are non-negative, so some partial sum carries out of bit 63 exactly
\* when the total does, in whatever order the terms are added.
RECURSIVE SumU64(_, _, _)
SumU64(state, lo, hi) ==
    IF lo > hi THEN [ v |-> U64Zero, carry |-> FALSE ]
    ELSE IF lo = hi THEN [ v |-> U64FromU32(state[lo]), carry |-> FALSE ]
    ELSE LET mid == (lo + hi) \div 2
             l   == SumU64(state, lo, mid)
             h   == SumU64(state, mid + 1, hi)
             s   == U64Add(l.v, h.v)
         IN  [ v |-> s.v, carry |-> s.carry \/ l.carry \/ h.carry ]

\* Mutant: s0 takes state[0] itself, the negation forgotten.
permute_mut_acc_no_neg(state, sh) ==
    LET n        == Len(state)
        part_sum == SumU64(state, 2, n)
        full_sum == U64Add(part_sum.v, U64FromU32(state[1]))
        s0       == U64Add(part_sum.v, U64FromU32(state[1]))
        inRange  == [ j \in 2..n |-> j - 1 <= Len(sh) ]
    IN  [ acc   |-> AsSeq([ j \in 1..n |->
                        IF j = 1 THEN s0
                        ELSE U64Add(full_sum.v,
                                    U64Shl(U64FromU32(state[j]),
                                           IF inRange[j] THEN sh[j - 1] ELSE 0)) ]),
          idxOk |-> \A j \in 2..n : inRange[j],
          sumOk |-> ~part_sum.carry /\ ~full_sum.carry ]

\* Mutant: the shift done in u32, before the widening to u64
\* ((state[i].value << shift) as u64): the bits past bit 31 are lost.
permute_mut_acc_u32_shift(state, sh) ==
    LET n        == Len(state)
        part_sum == SumU64(state, 2, n)
        full_sum == U64Add(part_sum.v, U64FromU32(state[1]))
        s0       == U64Add(part_sum.v, U64FromU32(NegP(state[1])))
        inRange  == [ j \in 2..n |-> j - 1 <= Len(sh) ]
        shl32(v, k) == [ U64Shl(U64FromU32(v), k) EXCEPT ![3] = 0, ![4] = 0 ]
    IN  [ acc   |-> AsSeq([ j \in 1..n |->
                        IF j = 1 THEN s0
                        ELSE U64Add(full_sum.v,
                                    shl32(state[j],
                                          IF inRange[j] THEN sh[j - 1] ELSE 0)) ]),
          idxOk |-> \A j \in 2..n : inRange[j],
          sumOk |-> ~part_sum.carry /\ ~full_sum.carry ]

\* The u64 accumulators of one call, by 1-based position: s0 for position 1 and
\* si = full_sum + (state[i] << shifts[i - 1]) for the others.  Iteration i of
\* `for i in 1..N` reads state[i] before it writes it and reads nothing else of
\* the state (part_sum and full_sum are taken before the first write), so every
\* accumulator is a function of the state the call was entered with.
permute_mut_acc(state, sh) ==
    LET n        == Len(state)
        part_sum == SumU64(state, 2, n)
        full_sum == U64Add(part_sum.v, U64FromU32(state[1]))
        s0       == U64Add(part_sum.v, U64FromU32(NegP(state[1])))
        inRange  == [ j \in 2..n |-> j - 1 <= Len(sh) ]
    IN  [ acc   |-> AsSeq([ j \in 1..n |->
                        IF j = 1 THEN s0
                        ELSE U64Add(full_sum.v,
                                    U64Shl(U64FromU32(state[j]),
                                           IF inRange[j] THEN sh[j - 1] ELSE 0)) ]),
          idxOk |-> \A j \in 2..n : inRange[j],
          sumOk |-> ~part_sum.carry /\ ~full_sum.carry ]

\* Mutant: the accumulator masked to its low 31 bits instead of reduced.
permute_mut_masked(state, sh) ==
    LET n == Len(state)
        a == permute_mut_acc(state, sh)
    IN  [ state  |-> AsSeq([ j \in 1..n |->
                        a.acc[j].v[1] + (a.acc[j].v[2] % 32768) * Limb ]),
          lenOk  |-> Len(sh) + 1 = n,
          idxOk  |-> a.idxOk,
          noWrap |-> a.sumOk /\ \A j \in 1..n : ~a.acc[j].carry,
          fits62 |-> \A j \in 1..n : U64Below2_62(a.acc[j].v),
          handed |-> AsSeq([ j \in 1..n |-> a.acc[j].v ]) ]

permute_mut(state, sh) ==
    LET n == Len(state)
        a == permute_mut_acc(state, sh)
    IN  [ state  |-> AsSeq([ j \in 1..n |-> from_u62(a.acc[j].v) ]),
          lenOk  |-> Len(sh) + 1 = n,
          idxOk  |-> a.idxOk,
          noWrap |-> a.sumOk /\ \A j \in 1..n : ~a.acc[j].carry,
          fits62 |-> \A j \in 1..n : U64Below2_62(a.acc[j].v),
          handed |-> AsSeq([ j \in 1..n |-> a.acc[j].v ]) ]

\* The call returned normally in a build with debug assertions and overflow checks.
CallOk(r) == r.lenOk /\ r.idxOk /\ r.noWrap /\ r.fits62

-----------------------------------------------------------------------------
(* GenericPoseidon2LinearLayersMersenne31::internal_linear_layer with the  *)
(* ring R = Mersenne31: the same map by field operations only.  The zip of *)
(* state[1..] with the shift table, after skip(2), pairs the code's        *)
(* state[i] with SHIFTS[i - 1] for i >= 3 and stops at the shorter of the  *)
(* two.                                                                    *)

generic_internal_linear_layer(state, sh) ==
    LET part_sum == SumP(state, 2, Len(state))
        full_sum == AddP(part_sum, state[1])
    IN  AsSeq([ j \in 1..Len(state) |->
            IF j = 1 THEN SubP(part_sum, state[1])
            ELSE IF j = 2 THEN AddP(full_sum, state[2])
            ELSE IF j = 3 THEN AddP(full_sum, DoubleP(state[3]))
            ELSE IF j - 1 <= Len(sh)
                 THEN AddP(full_sum, Mul2ExpP(state[j], sh[j - 1]))
            ELSE state[j] ])

internal_linear_layer_16(state) ==
    generic_internal_linear_layer(state, POSEIDON2_INTERNAL_MATRIX_DIAG_16_SHIFTS)

\* Mutant: the width-24 impl zips with the width-16 table.
internal_linear_layer_24_table16(state) ==
    generic_internal_linear_layer(state, POSEIDON2_INTERNAL_MATRIX_DIAG_16_SHIFTS)

internal_linear_layer_24(state) ==
    generic_internal_linear_layer(state, POSEIDON2_INTERNAL_MATRIX_DIAG_24_SHIFTS)

-----------------------------------------------------------------------------
(* The S-box and the rounds of the permutation driver.  The driver         *)
(* (p3_poseidon2: Poseidon2, internal_permute_state,                       *)
(* external_*_permute_state, add_rc_and_sbox_generic, MDSMat4) is an       *)
(* external collaborator; its steps are taken from the design document:    *)
(* an internal round adds one scalar constant to element 0, raises element *)
(* 0 to the S-box degree and applies the diffusion transform; an external  *)
(* round adds a constant vector, raises every element to the S-box degree  *)
(* and applies the 4x4 mixing matrix to every consecutive group of four.   *)

\* Mutant: the degree of the BabyBear instance.
BABYBEAR_S_BOX_DEGREE == 5 + 2

MERSENNE31_S_BOX_DEGREE == 5

sbox(x) == PowP(x, MERSENNE31_S_BOX_DEGREE)

\* add_rc_and_sbox_generic, split in its two halves.
add_rc(x, rc) == AddP(x, rc)

\* The 4x4 block matrix circ(2, 3, 1, 1), on the group of four holding position j.
MDSMat4(t, j) ==
    LET base == j - ((j - 1) % 4)
        r    == (j - 1) % 4
        x(k) == t[base + ((r + k) % 4)]
    IN  AddP(AddP(DoubleP(x(0)), AddP(DoubleP(x(1)), x(1))), AddP(x(2), x(3)))

external_round(state, rc) ==
    LET t == AsSeq([ i \in 1..Len(state) |-> sbox(add_rc(state[i], rc[i])) ])
    IN  AsSeq([ j \in 1..Len(state) |-> MDSMat4(t, j) ])

-----------------------------------------------------------------------------
(* Layer bindings: the closures the internal layer hands to the driver.    *)

diffusion_16(state) == permute_mut(state, POSEIDON2_INTERNAL_MATRIX_DIAG_16_SHIFTS)

\* Mutant: the width-24 closure passes the width-16 table.
diffusion_24_table16(state) ==
    permute_mut(state, POSEIDON2_INTERNAL_MATRIX_DIAG_16_SHIFTS)

diffusion_24(state) == permute_mut(state, POSEIDON2_INTERNAL_MATRIX_DIAG_24_SHIFTS)

\* The impl the compiler selects for a state of the given width.
diffusion(width, state) ==
    IF width = 16 THEN diffusion_16(state) ELSE diffusion_24(state)

\* GenericPoseidon2LinearLayers<WIDTH>::internal_linear_layer, by width.
internal_linear_layer(width, state) ==
    IF width = 16 THEN internal_linear_layer_16(state)
    ELSE internal_linear_layer_24(state)

-----------------------------------------------------------------------------
(* Round constants and the two default instances.                          *)

MERSENNE31_RC16_EXTERNAL_INITIAL ==
    << << 1988864850, 1893772157, 1025928330, 1839472709, 1611656994, 1104858731,
          1694088660, 1564660990, 1991332205, 1875486487, 1890340790, 1658614,
          582370530, 528029397, 1196956642, 655401251 >>,
       << 1652877415, 26032894, 1576640243, 1277052539, 1450142396, 697623591,
          1401580866, 1568404175, 2145004971, 265835716, 1183985610, 1031234465,
          436012490, 172735299, 352802897, 1032863094 >>,
       << 757665783, 1082171296, 1507509996, 309929890, 1807683232, 43258895,
          611592566, 1854193793, 575164234, 894217817, 72613857, 1061659596,
          8921166, 1617355017, 998001536, 1800758877 >>,
       << 1002748055, 1935405944, 1351462722, 411368491, 1913975372, 1956167178,
          442558016, 855898408, 699687798, 1553382248, 1708169125, 490049183,
          1251643415, 1193594742, 880473871, 511174042 >> >>

MERSENNE31_RC16_EXTERNAL_FINAL ==
    << << 1460209171, 530850056, 398192464, 536338716, 75179210, 1309934197,
          1335920373, 127611036, 291093831, 1832379621, 123571662, 303176864,
          2137685056, 1759609530, 1418928155, 71608334 >>,
       << 6616262, 1684515814, 1721194338, 720801691, 878392254, 460379263,
          87930647, 940673483, 1136203256, 551499412, 256220454, 2007034235,
          796124985, 410436345, 1705042586, 1286336446 >>,
       << 1522340456, 1295296352, 309794713, 1772145068, 956898901, 2137070800,
          988829146, 2059451359, 1846491684, 1105442551, 1236497773, 1452000568,
          549485016, 385992492, 1987107948, 1514377269 >>,
       << 2090065934, 1444920141, 293113979, 41120774, 855319793, 1663284746,
          1789994008, 1120509162, 358222743, 1406256810, 735183687, 664485235,
          1331641456, 38121324, 595810771, 1234594393 >> >>

MERSENNE31_RC16_INTERNAL ==
    << 2139014335, 69309039, 1368974953, 886780232, 1130937085, 1718115455,
       2027103386, 1612216449, 1994053242, 110146615, 514413329, 1088763546,
       955319292 >>

MERSENNE31_RC24_EXTERNAL_INITIAL ==
    << << 535476833, 1394754644, 1808710114, 1343879604, 1215456658, 723701928,
          1632746489, 793201441, 783676215, 996433287, 155373296, 1696762962,
          2030023439, 1294481352, 236432463, 89417350, 74188492, 189907894,
          1452128099, 951268580, 1475718384, 433268241, 2010132299, 1820518840 >>,
       << 1900593590, 134642805, 1188161737, 815217415, 543248187, 1547696209,
          810562345, 1232267212, 47306940, 165003174, 158401728, 2074384948,
          1242022652, 616689257, 682011457, 1569786016, 980963783, 500471289,
          313827316, 2074957664, 1609393346, 1727383916, 2125446402, 968055099 >>,
       << 1248148297, 1963531713, 1457817824, 386179925, 1952337907, 959377774,
          836976607, 46304358, 918751290, 822399482, 1526975907, 1715593647,
          930433878, 963599097, 437929498, 1754146546, 1870829444, 465116521,
          1534623766, 1883940293, 25265820, 1092689494, 216531872, 599782304 >>,
       << 402354276, 1194422816, 1989233491, 563878149, 375739688, 1307792708,
          1619035237, 860944435, 62705095, 176625674, 24812021, 1855215398,
          356799748, 2013606833, 999407416, 1070038705, 1263375886, 1020869934,
          245688694, 491980492, 981123716, 247605556, 1301780243, 1369709669 >> >>

MERSENNE31_RC24_EXTERNAL_FINAL ==
    << << 476455577, 92050778, 2058797298, 631680266, 1971653464, 1224554387,
          188966577, 266145097, 2108955129, 1236913167, 1217697558, 700668048,
          1984189573, 472371980, 279607867, 821252022, 1876976693, 34823885,
          1823128214, 1051889872, 587042107, 1988826405, 1542019092, 1379762153 >>,
       << 1441352940, 1204039199, 447036254, 802291326, 1495469713, 1953684070,
          1682174687, 765321629, 1870621316, 2004878384, 251743176, 2079576213,
          649057048, 1478844919, 1591941516, 1791754240, 791764518, 667598912,
          630523934, 1499707354, 2114401637, 1827927537, 167289764, 229166334 >>,
       << 1623073637, 2128036597, 1720418353, 1269838996, 1493275443, 1879976056,
          482629718, 487987191, 2073595302, 1320457068, 2026502270, 1674460820,
          1903703067, 1169960838, 95909308, 1883963972, 703517304, 1207185458,
          556249829, 429363263, 615763459, 204614028, 2099998522, 402434689 >>,
       << 1928560623, 807987113, 1591561622, 529946683, 1289130378, 344461070,
          1763115865, 389856563, 157935604, 1853825963, 1635969671, 1305157468,
          1482662163, 1922872246, 28549754, 463565799, 1261681898, 1675180987,
          1799339929, 1863838161, 205379770, 197261736, 1691612016, 1180330520 >> >>

MERSENNE31_RC24_INTERNAL ==
    << 578251281, 1604534888, 336941709, 1447017748, 888427076, 302948790,
       638806181, 661020353, 918431749, 878462852, 401595585, 960390448,
       1839248568, 837148371, 1734027180, 183012400, 1467498956, 1608543724,
       1454401818, 1916984863, 1010267433 >>

\* Poseidon2::new(ExternalLayerConstants::new(initial, final), internal): the
\* instance owns its tables by value.
\* Mutant: the width-16 constructor handed the width-24 internal table.
default_16_with_internal_24 ==
    [ width    |-> 16,
      initial  |-> MERSENNE31_RC16_EXTERNAL_INITIAL,
      terminal |-> MERSENNE31_RC16_EXTERNAL_FINAL,
      internal |-> MERSENNE31_RC24_INTERNAL ]

default_mersenne31_poseidon2_16 ==
    [ width    |-> 16,
      initial  |-> MERSENNE31_RC16_EXTERNAL_INITIAL,
      terminal |-> MERSENNE31_RC16_EXTERNAL_FINAL,
      internal |-> MERSENNE31_RC16_INTERNAL ]

\* Mutant: the width-24 constructor handed the width-16 internal table.
default_24_with_internal_16 ==
    [ width    |-> 24,
      initial  |-> MERSENNE31_RC24_EXTERNAL_INITIAL,
      terminal |-> MERSENNE31_RC24_EXTERNAL_FINAL,
      internal |-> MERSENNE31_RC16_INTERNAL ]

default_mersenne31_poseidon2_24 ==
    [ width    |-> 24,
      initial  |-> MERSENNE31_RC24_EXTERNAL_INITIAL,
      terminal |-> MERSENNE31_RC24_EXTERNAL_FINAL,
      internal |-> MERSENNE31_RC24_INTERNAL ]

-----------------------------------------------------------------------------
(* Sampled inputs.                                                         *)

NumPatterns == 6     \* Spec: state patterns drawn for x and for y
NumScalars == 4      \* Spec: scalar pairs drawn for the linear combination
MaxApps == 2         \* Spec: consecutive applications of a transform to one state
NumPermInputs == 2   \* SpecPerm: input states drawn for the permute calls

Widths == { 16, 24 }

\* Sampled values: a multiplier spreads small seeds over the field.
Gen(seed, i) == MulP(seed * 64 + i, 1103515245)

\* Pattern k of width n: the extremes of the range first, sampled values after.
Pattern(n, k) ==
    AsSeq([ i \in 1..n |->
        CASE k = 0 -> 0
          [] k = 1 -> P - 1
          [] k = 2 -> IF i <= 2 THEN 1 ELSE 0
          [] k = 3 -> 2 ^ 30
          [] OTHER -> Gen(k, i) ])

Scalar(j) ==
    CASE j = 0 -> 1
      [] j = 1 -> P - 1
      [] j = 2 -> 2
      [] j = NumScalars -> 0
      [] OTHER -> Gen(j, 0)

\* a*x + b*y, elementwise in the field.
LinComb(a, x, b, y) ==
    AsSeq([ i \in 1..Len(x) |-> AddP(MulP(a, x[i]), MulP(b, y[i])) ])

Slots == { "x", "y", "z", "g" }

-----------------------------------------------------------------------------
(* Spec: the transforms as functions.  Slots x, y and z = a*x + b*y go     *)
(* through permute_mut as the internal layer of width N calls it; slot g   *)
(* starts as x and goes through the generic internal_linear_layer of width *)
(* N.  The slots are served in turn (x, y, z, g), MaxApps times each.      *)

Init ==
    /\ N \in Widths
    /\ \E j \in 0..(NumScalars - 1) :
         /\ ca = Scalar(j)
         /\ cb = Scalar(j + 1)
    /\ \E kx \in 0..(NumPatterns - 1), ky \in 0..(NumPatterns - 1) :
         \E x \in { Pattern(N, kx) }, y \in { Pattern(N, ky) } :
           st = [ s \in Slots |->
                    CASE s = "x" -> x
                      [] s = "y" -> y
                      [] s = "z" -> LinComb(ca, x, cb, y)
                      [] OTHER   -> x ]
    /\ prev = st
    /\ applied = [ s \in Slots |-> 0 ]
    /\ handed = << >>
    /\ panicked = FALSE
    /\ perm = [ width |-> 0 ]
    /\ calls = << >>

\* Whose turn it is.
Turn(s) ==
    CASE s = "x" -> applied["x"] = applied["g"] /\ applied["x"] < MaxApps
      [] s = "y" -> applied["y"] < applied["x"]
      [] s = "z" -> applied["z"] < applied["y"]
      [] OTHER   -> applied["g"] < applied["z"]

\* One call of permute_mut on slot s, through the closure of width N.  A failed
\* check of the build (a debug assertion, an overflow check, an index out of
\* range) ends the run in a panic.
PermuteMut(s) ==
    /\ ~panicked
    /\ Turn(s)
    /\ \E r \in { diffusion(N, st[s]) } :
         /\ handed' = r.handed
         /\ IF CallOk(r)
            THEN /\ st' = [ st EXCEPT ![s] = r.state ]
                 /\ prev' = [ prev EXCEPT ![s] = st[s] ]
                 /\ applied' = [ applied EXCEPT ![s] = @ + 1 ]
                 /\ UNCHANGED panicked
            ELSE /\ panicked' = TRUE
                 /\ UNCHANGED << st, prev, applied >>
    /\ UNCHANGED << N, ca, cb, perm, calls >>

\* One call of the generic layer of width N on slot g.
GenericLayer ==
    /\ ~panicked
    /\ Turn("g")
    /\ st' = [ st EXCEPT !["g"] = internal_linear_layer(N, st["g"]) ]
    /\ prev' = [ prev EXCEPT !["g"] = st["g"] ]
    /\ applied' = [ applied EXCEPT !["g"] = @ + 1 ]
    /\ UNCHANGED << N, ca, cb, handed, panicked, perm, calls >>

Next ==
    \/ \E s \in { "x", "y", "z" } : PermuteMut(s)
    \/ GenericLayer

Spec == Init /\ [][Next]_vars

-----------------------------------------------------------------------------
(* SpecPerm: permute calls on one default instance.  A permute call runs   *)
(* the initial external rounds, the internal rounds and the terminal       *)
(* external rounds on its own state array.  Call "lone" runs first, by     *)
(* itself; calls "a" (on the same input) and "b" (on another input) then   *)
(* run interleaved, step by step, on the same instance.  Every call keeps  *)
(* a history: the S-box applications and closure calls it has made, the    *)
(* state it entered the current internal round with (roundIn) and the      *)
(* state it last handed to the closure (diffIn).                           *)

CallIds == { "lone", "a", "b" }

NewCall(input) ==
    [ input      |-> input,
      state      |-> input,
      pc         |-> "initial",
      round      |-> 0,
      sub        |-> "add_rc",
      sboxes     |-> 0,
      diffusions |-> 0,
      roundIn    |-> input,
      diffIn     |-> input ]

InitPerm ==
    /\ perm \in { default_mersenne31_poseidon2_16, default_mersenne31_poseidon2_24 }
    /\ \E k \in 0..(NumPermInputs - 1) :
         calls = [ c \in CallIds |->
                     NewCall(Pattern(perm.width,
                                     IF c = "b" THEN (k + 5) % NumPatterns
                                     ELSE (k + 4) % NumPatterns)) ]
    /\ panicked = FALSE
    /\ N = 0
    /\ ca = 0
    /\ cb = 0
    /\ st = << >>
    /\ prev = << >>
    /\ applied = << >>
    /\ handed = << >>

\* Calls a and b start once the lone call has returned.
Ready(c) == ~panicked /\ (c = "lone" \/ calls["lone"].pc = "done")

\* Mutant: the instance keeps a cursor into its constants, which the calls
\* advance (the table is drained as it is used).
permute_state_initial_draining(c) ==
    /\ Ready(c)
    /\ calls[c].pc = "initial"
    /\ perm.initial # << >>
    /\ \E after \in { external_round(calls[c].state, Head(perm.initial)) } :
         LET last == calls[c].round + 1 = 4
         IN  calls' = [ calls EXCEPT
                          ![c].state   = after,
                          ![c].sboxes  = @ + Len(after),
                          ![c].round   = IF last THEN 0 ELSE @ + 1,
                          ![c].pc      = IF last THEN "internal" ELSE "initial",
                          ![c].roundIn = IF last THEN after ELSE @ ]
    /\ perm' = [ perm EXCEPT !.initial = Tail(@) ]
    /\ UNCHANGED << panicked, varsFn >>

\* ExternalLayer::permute_state_initial: one round per step, over
\* self.external_constants.get_initial_constants().
permute_state_initial(c) ==
    /\ Ready(c)
    /\ calls[c].pc = "initial"
    /\ LET rcs == perm.initial
           k   == calls[c].round + 1
       IN  \E after \in { external_round(calls[c].state, rcs[k]) } :
             LET last == k = Len(rcs)
             IN  calls' = [ calls EXCEPT
                              ![c].state   = after,
                              ![c].sboxes  = @ + Len(after),
                              ![c].round   = IF last THEN 0 ELSE k,
                              ![c].pc      = IF last THEN "internal" ELSE "initial",
                              ![c].roundIn = IF last THEN after ELSE @ ]
    /\ UNCHANGED << perm, panicked, varsFn >>

\* InternalLayer::permute_state: internal_permute_state over
\* self.internal_constants with the width's permute_mut closure; one step adds
\* the round constant to element 0, the next raises element 0 to the S-box
\* degree, the third applies the closure and ends the round.
permute_state(c) ==
    /\ Ready(c)
    /\ calls[c].pc = "internal"
    /\ LET rcs == perm.internal
           k   == calls[c].round + 1
           s   == calls[c].state
       IN  CASE calls[c].sub = "add_rc" ->
                  /\ calls' = [ calls EXCEPT ![c].state[1] = add_rc(s[1], rcs[k]),
                                             ![c].sub = "sbox" ]
                  /\ UNCHANGED panicked
             [] calls[c].sub = "sbox" ->
                  /\ calls' = [ calls EXCEPT ![c].state[1] = sbox(s[1]),
                                             ![c].sboxes = @ + 1,
                                             ![c].sub = "diffuse" ]
                  /\ UNCHANGED panicked
             [] OTHER ->
                  \E r \in { diffusion(perm.width, s) } :
                    IF CallOk(r)
                    THEN /\ calls' = [ calls EXCEPT
                                         ![c].state      = r.state,
                                         ![c].diffIn     = s,
                                         ![c].roundIn    = r.state,
                                         ![c].diffusions = @ + 1,
                                         ![c].sub        = "add_rc",
                                         ![c].round      = IF k = Len(rcs) THEN 0 ELSE k,
                                         ![c].pc         = IF k = Len(rcs) THEN "terminal"
                                                           ELSE "internal" ]
                         /\ UNCHANGED panicked
                    ELSE /\ panicked' = TRUE
                         /\ UNCHANGED calls
    /\ UNCHANGED << perm, varsFn >>

\* ExternalLayer::permute_state_terminal: one round per step, over
\* self.external_constants.get_terminal_constants().
permute_state_terminal(c) ==
    /\ Ready(c)
    /\ calls[c].pc = "terminal"
    /\ LET rcs == perm.terminal
           k   == calls[c].round + 1
       IN  \E after \in { external_round(calls[c].state, rcs[k]) } :
             LET last == k = Len(rcs)
             IN  calls' = [ calls EXCEPT
                              ![c].state  = after,
                              ![c].sboxes = @ + Len(after),
                              ![c].round  = IF last THEN 0 ELSE k,
                              ![c].pc     = IF last THEN "done" ELSE "terminal" ]
    /\ UNCHANGED << perm, panicked, varsFn >>

NextPerm ==
    \E c \in CallIds :
        \/ permute_state_initial(c)
        \/ permute_state(c)
        \/ permute_state_terminal(c)

SpecPerm == InitPerm /\ [][NextPerm]_vars

-----------------------------------------------------------------------------
(* References the properties are stated against.                           *)

TableOf(n) ==
    IF n = 16 THEN POSEIDON2_INTERNAL_MATRIX_DIAG_16_SHIFTS
    ELSE POSEIDON2_INTERNAL_MATRIX_DIAG_24_SHIFTS

DiagonalOf(n) == IF n = 16 THEN OPTIMIZED_DIAGONAL_16 ELSE OPTIMIZED_DIAGONAL_24

InternalTableOf(n) ==
    IF n = 16 THEN MERSENNE31_RC16_INTERNAL ELSE MERSENNE31_RC24_INTERNAL

DefaultInstanceOf(n) ==
    IF n = 16 THEN default_mersenne31_poseidon2_16
    ELSE default_mersenne31_poseidon2_24

\* (1 + diag(V)) * old, in exact arithmetic mod p.
MatrixProduct(V, old) ==
    LET total == SumP(old, 1, Len(old))
    IN  AsSeq([ j \in 1..Len(old) |-> AddP(total, MulP(V[j], old[j])) ])

Fifth(x) == MulP(MulP(MulP(x, x), MulP(x, x)), x)

Zeros(n) == AsSeq([ j \in 1..n |-> 0 ])

RECURSIVE Gcd(_, _)
Gcd(a, b) == IF b = 0 THEN a ELSE Gcd(b, a % b)

-----------------------------------------------------------------------------
(* Properties of the transforms (specification Spec).                      *)

\* C1: permute_mut, called with a width's shift table on a state of canonical
\* elements, replaces the state by its product with 1 + diag(V),
\* V = [-2, 2^shifts[0], ..., 2^shifts[N-2]], computed from the pre-call values
\* only; V is the diagonal the module documentation lists for the width.
C1_MatrixProduct ==
    /\ ~panicked
    /\ \A j \in 1..(N - 1) : DiagonalOf(N)[j + 1] = 2 ^ TableOf(N)[j]
    /\ DiagonalOf(N)[1] = NegP(2)
    /\ \A s \in { "x", "y", "z" } :
         applied[s] > 0 => st[s] = MatrixProduct(DiagonalOf(N), prev[s])

C1_Witness ==
    /\ N = 24
    /\ applied["z"] = MaxApps
    /\ st["z"] # prev["z"]
    /\ st["z"] = MatrixProduct(DiagonalOf(N), prev["z"])
    /\ \E j \in 1..N : prev["z"][j] > 2 ^ 30

\* C2: for width 16 and width 24 the generic internal_linear_layer on plain
\* field elements gives, position by position, the state permute_mut gives
\* with the width's shift table, on the same input and after the same number
\* of applications.
C2_GenericAgrees ==
    applied["g"] = applied["x"] => st["g"] = st["x"]

C2_Witness ==
    /\ N = 24
    /\ applied["g"] = MaxApps
    /\ applied["x"] = MaxApps
    /\ st["g"] = st["x"]
    /\ st["g"] # prev["g"]
    /\ \A j \in 1..3 : prev["g"][j] # 0

\* C3: in permute_mut, for both widths, no 64-bit accumulation wraps and every
\* value handed to from_u62 is below 2^62.
C3_Below2_62 ==
    /\ ~panicked
    /\ \A j \in DOMAIN handed : U64Below2_62(handed[j])

\* The largest element under the largest shift: an accumulator of 2^53 or more.
C3_Witness ==
    /\ N = 24
    /\ ~panicked
    /\ Len(handed) = 24
    /\ handed[24][4] >= 32
    /\ U64Below2_62(handed[24])

\* C4: permute_mut with a width's shift table is linear over the field,
\* transform(a*x + b*y) = a*transform(x) + b*transform(y), and maps the
\* all-zero state to the all-zero state.
C4_Linear ==
    /\ (applied["x"] = applied["y"] /\ applied["y"] = applied["z"])
          => st["z"] = LinComb(ca, st["x"], cb, st["y"])
    /\ \A s \in { "x", "y", "z" } :
          (applied[s] > 0 /\ prev[s] = Zeros(N)) => st[s] = Zeros(N)

C4_Witness ==
    /\ applied["x"] = 1
    /\ applied["z"] = 1
    /\ ca \notin { 0, 1 }
    /\ cb \notin { 0, 1 }
    /\ st["x"] # st["y"]
    /\ st["x"] # Zeros(N)
    /\ st["y"] # Zeros(N)
    /\ st["z"] # Zeros(N)
    /\ st["z"] = LinComb(ca, st["x"], cb, st["y"])

\* C10: permute_mut preserves canonical form: after any number of consecutive
\* applications every element of the state is in [0, p).
C10_Canonical ==
    \A s \in { "x", "y", "z" } : \A j \in 1..N : IsCanonical(st[s][j])

C10_Witness ==
    /\ N = 16
    /\ applied["z"] = MaxApps
    /\ \A j \in 1..N : IsCanonical(st["z"][j])
    /\ \E j \in 1..N : prev["z"][j] > 2 ^ 30
    /\ \E j \in 1..N : handed[j][3] > 0

-----------------------------------------------------------------------------
(* Properties of the permute calls (specification SpecPerm).               *)

\* C5: the internal layer performs, per entry of the instance's internal
\* round-constant table and in table order, the triple: add the constant to
\* element 0 only, raise element 0 only to the fifth power, apply permute_mut
\* with the width's shift table to the whole state; the triple runs 13 times
\* for width 16 and 21 times for width 24, and elements 1..WIDTH-1 change in
\* the diffusion step only.
C5_InternalRounds ==
    \A c \in CallIds :
      LET r  == calls[c]
          W  == perm.width
          rc == InternalTableOf(W)[r.round + 1]
      IN  /\ r.pc = "initial" => r.diffusions = 0
          /\ r.pc = "internal" =>
               /\ r.diffusions = r.round
               /\ r.sub = "add_rc" => r.state = r.roundIn
               /\ r.sub = "sbox" =>
                    r.state = [ r.roundIn EXCEPT ![1] = AddP(@, rc) ]
               /\ r.sub = "diffuse" =>
                    r.state = [ r.roundIn EXCEPT ![1] = Fifth(AddP(@, rc)) ]
          /\ r.diffusions > 0 =>
               r.roundIn = MatrixProduct(DiagonalOf(W), r.diffIn)
          /\ r.pc \in { "terminal", "done" } =>
               r.diffusions = (IF W = 16 THEN 13 ELSE 21)

C5_Witness ==
    \E c \in CallIds :
      /\ perm.width = 16
      /\ calls[c].pc = "terminal"
      /\ calls[c].diffusions = 13
      /\ calls[c].state = MatrixProduct(DiagonalOf(16), calls[c].diffIn)

\* C6: one permute call on a default instance of width W applies the S-box
\* (4 + 4) * W + (entries of the internal table) times: 141 times for width
\* 16 and 213 times for width 24.
C6_SboxCount ==
    \A c \in CallIds :
      calls[c].pc = "done" =>
        /\ Len(perm.initial) = 4
        /\ Len(perm.terminal) = 4
        /\ calls[c].sboxes = (Len(perm.initial) + Len(perm.terminal)) * perm.width
                               + Len(perm.internal)
        /\ calls[c].sboxes = (IF perm.width = 16 THEN 141 ELSE 213)

C6_Witness ==
    /\ perm.width = 24
    /\ calls["lone"].pc = "done"
    /\ calls["lone"].sboxes = 213

\* C7: a permute call never modifies the instance, and after any sequence or
\* interleaving of calls on the same instance, each on its own state array, a
\* call yields the output the lone call yielded on the same input.
C7_Deterministic ==
    /\ perm = DefaultInstanceOf(perm.width)
    /\ \A c \in CallIds :
         (/\ calls[c].pc = "done"
          /\ calls[c].input = calls["lone"].input)
            => calls[c].state = calls["lone"].state

C7_Witness ==
    /\ calls["a"].pc = "done"
    /\ calls["b"].pc = "done"
    /\ calls["a"].input = calls["lone"].input
    /\ calls["a"].state = calls["lone"].state
    /\ calls["b"].input # calls["a"].input
    /\ calls["b"].state # calls["a"].state
    /\ perm = default_mersenne31_poseidon2_24

\* C8: the S-box degree MERSENNE31_S_BOX_DEGREE, 5, is the smallest D >= 2
\* with gcd(p - 1, D) = 1: gcd(p - 1, D) > 1 for D = 2, 3 and 4.
C8_SmallestCoprimeDegree ==
    /\ MERSENNE31_S_BOX_DEGREE >= 2
    /\ Gcd(P - 1, MERSENNE31_S_BOX_DEGREE) = 1
    /\ \A D \in 2..(MERSENNE31_S_BOX_DEGREE - 1) : Gcd(P - 1, D) > 1
    /\ \A c \in CallIds :
         (calls[c].pc = "internal" /\ calls[c].sub = "diffuse")
            => \E x \in { AddP(calls[c].roundIn[1],
                               perm.internal[calls[c].round + 1]) } :
                 calls[c].state[1] = Fifth(x)

C8_Witness ==
    /\ MERSENNE31_S_BOX_DEGREE = 5
    /\ \A D \in { 2, 3, 4 } : Gcd(P - 1, D) > 1
    /\ \E c \in CallIds :
         /\ calls[c].pc = "internal"
         /\ calls[c].sub = "diffuse"
         /\ calls[c].state[1] > 1
         /\ calls[c].state[1] = sbox(AddP(calls[c].roundIn[1],
                                          perm.internal[calls[c].round + 1]))

\* C9: every permute_mut call made through the width-16 and width-24
\* internal-layer bindings passes a table of WIDTH - 1 shifts (15, resp. 23):
\* the assertion shifts.len() + 1 == N holds and no index is out of range.
C9_AssertHolds ==
    /\ ~panicked
    /\ Len(TableOf(16)) = 15
    /\ Len(TableOf(24)) = 23
    /\ LET r == diffusion(perm.width, calls["lone"].input)
       IN  r.lenOk /\ r.idxOk

C9_Witness ==
    /\ ~panicked
    /\ perm.width = 24
    /\ calls["b"].diffusions = 21
    /\ calls["a"].diffusions > 0

=============================================================================
